---- MODULE Spec2Model ----
(***************************************************************************)
(* Model of the room/session coordination core of geo-wordle-multiplayer   *)
(* (src/server.js, first server definition, lines 1-376): the in-memory    *)
(* room registry, the per-connection currentRoom binding, and the          *)
(* createRoom / joinRoom / chatMessage / requestHint / makeGuess /         *)
(* disconnect / lobbyChatMessage handlers.  Every handler runs to          *)
(* completion (single-threaded event loop), so each is one action.         *)
(***************************************************************************)
EXTENDS Integers, Sequences, FiniteSets, TLC

\* ---------------------------------------------------------------- bounds
\* number of connections (socket ids) that ever connect
NumSockets == 2
\* size of the room-code space (36^6 in the program)
NumCodes == 2
\* cap on the length of a room's chat log (unbounded in the program)
MaxChat == 2
\* cap on the number of lobby posts ever made beyond the lobby capacity
MaxLobbyExtra == 1
\* length of the words the feedback function is applied to on its own
FeedbackLen == 3

\* ------------------------------------------------------ program constants
MAX_LOBBY_MESSAGES == 50
WORD_LENGTH == 5
MAX_ATTEMPTS == 6

Sockets == 1..NumSockets
Codes == 1..NumCodes
\* null for currentRoom, for a missing code and for "winner: null"
Null == 0

\* ------------------------------------------------------------- word pools
\* A word is a sequence of one-character strings.
SPAIN == <<"S", "P", "A", "I", "N">>
ITALY == <<"I", "T", "A", "L", "Y">>
PARIS == <<"P", "A", "R", "I", "S">>
ROME == <<"R", "O", "M", "E">>

\* pools built at startup from country-list and capitals.json (external data)
countries == {SPAIN, ITALY}
capitalCities == {ROME}

Modes == {"countries", "cities", "both"}

\* pool selected by a mode (server.js chooseAnswer and the makeGuess pool)
Pool(mode) ==
  IF mode = "countries" THEN countries
  ELSE IF mode = "cities" THEN capitalCities
  ELSE countries \cup capitalCities

\* chooseAnswer(mode): any element of the selected pool (Math.random)
chooseAnswer(mode) == Pool(mode)

\* generateCode without the rooms.has(code) retry
generateCodeNoRetry(rs) == Codes

\* generateCode(): loops until it draws a code that is not a live key
generateCode(rs) == {c \in Codes : c \notin DOMAIN rs}

\* ---------------------------------------------------- string conversions
LowerToUpper ==
  [c \in {"s", "p", "a", "i", "n", "t", "l", "y"} |->
     CASE c = "s" -> "S" [] c = "p" -> "P" [] c = "a" -> "A"
       [] c = "i" -> "I" [] c = "n" -> "N" [] c = "t" -> "T"
       [] c = "l" -> "L" [] c = "y" -> "Y"]

\* String.prototype.toUpperCase, character by character
toUpperCase(w) ==
  [i \in 1..Len(w) |-> IF w[i] \in DOMAIN LowerToUpper THEN LowerToUpper[w[i]] ELSE w[i]]

RECURSIVE trimStart(_)
trimStart(w) == IF w # <<>> /\ Head(w) = " " THEN trimStart(Tail(w)) ELSE w

RECURSIVE trimEnd(_)
trimEnd(w) ==
  IF w # <<>> /\ w[Len(w)] = " " THEN trimEnd(SubSeq(w, 1, Len(w) - 1)) ELSE w

\* String.prototype.trim
trim(w) == trimEnd(trimStart(w))

\* guess = guess.toUpperCase().trim()
normalize(w) == trim(toUpperCase(w))

\* answer.includes(ch)
includes(w, ch) == \E i \in 1..Len(w) : w[i] = ch

\* feedback that marks a repeated letter of the guess only at its first position
feedbackFirstOnly(guess, answer) ==
  [i \in 1..Len(guess) |->
     IF i <= Len(answer) /\ guess[i] = answer[i] THEN "correct"
     ELSE IF includes(answer, guess[i]) /\ \A j \in 1..(i - 1) : guess[j] # guess[i]
       THEN "present"
     ELSE "absent"]

\* feedback without the positional comparison
feedbackPresentOnly(guess, answer) ==
  [i \in 1..Len(guess) |-> IF includes(answer, guess[i]) THEN "present" ELSE "absent"]

\* the per-character feedback of makeGuess
feedbackOf(guess, answer) ==
  [i \in 1..Len(guess) |->
     IF i <= Len(answer) /\ guess[i] = answer[i] THEN "correct"
     ELSE IF includes(answer, guess[i]) THEN "present"
     ELSE "absent"]

\* ------------------------------------------------------------------ state
VARIABLES
  rooms,          \* the registry: live code -> room
  currentRoom,    \* per connection: the closure variable currentRoom
  conn,           \* per connection: "idle" (not yet connected), "open", "closed"
  channel,        \* socket.io group membership: code -> connections joined
  lobbyMessages,  \* the lobby log
  lobbyPosted,    \* number of lobby posts so far (bounds the model)
  crashed,        \* an exception escaped a handler
  last,           \* the event handled by the last step: handler, socket, and
                  \* for an accepted guess the attempts.length read after the push
  out             \* the events emitted by the last step, in order

vars == <<rooms, currentRoom, conn, channel, lobbyMessages, lobbyPosted, crashed, last, out>>

\* one emitted event: name, receiving connections, payload
Emit(ev, to, arg) == [ev |-> ev, to |-> to, arg |-> arg]

Live == DOMAIN rooms

\* rooms.set(code, room) / rooms.delete(code)
roomsSet(rs, code, room) == [c \in DOMAIN rs \cup {code} |-> IF c = code THEN room ELSE rs[c]]
roomsDelete(rs, code) == [c \in DOMAIN rs \ {code} |-> rs[c]]

\* Map.delete that leaves the entry in place
mapKeep(m, k) == m

\* Map.set / Map.delete on the attempts map
mapSet(m, k, v) == [x \in DOMAIN m \cup {k} |-> IF x = k THEN v ELSE m[x]]
mapDelete(m, k) == [x \in DOMAIN m \ {k} |-> m[x]]

\* the room object built by createRoom
newRoom(s, mode, answer) ==
  [mode |-> mode, answer |-> answer, players |-> {s}, attempts |-> <<>>,
   hintedIndices |-> {}, avatars |-> {}, messages |-> <<>>]

Init ==
  /\ rooms = <<>>
  /\ currentRoom = [s \in Sockets |-> Null]
  /\ conn = [s \in Sockets |-> "idle"]
  /\ channel = [c \in Codes |-> {}]
  /\ lobbyMessages = <<>>
  /\ lobbyPosted = 0
  /\ crashed = FALSE
  /\ last = [op |-> "init", sock |-> Null, n |-> 0]
  /\ out = <<>>

\* io.on("connection"): currentRoom = null, lobby snapshot to the new socket
Connect(s) ==
  /\ ~crashed
  /\ conn[s] = "idle"
  /\ conn' = [conn EXCEPT ![s] = "open"]
  /\ last' = [op |-> "connection", sock |-> s, n |-> 0]
  /\ out' = <<Emit("lobbyMessages", {s}, Len(lobbyMessages))>>
  /\ UNCHANGED <<rooms, currentRoom, channel, lobbyMessages, lobbyPosted, crashed>>

\* the lobby log left as it is after the push
keepOverflow(log) == log

\* if (lobbyMessages.length > MAX_LOBBY_MESSAGES) lobbyMessages.shift()
shiftOverflow(log) == IF Len(log) > MAX_LOBBY_MESSAGES THEN Tail(log) ELSE log

\* socket.on("lobbyChatMessage"): push, drop the oldest beyond the capacity,
\* broadcast to every connected socket.  The timestamp (Date.now()) is the
\* number of the post.
LobbyChatMessage(s, text) ==
  /\ ~crashed
  /\ conn[s] = "open"
  /\ lobbyPosted < MAX_LOBBY_MESSAGES + MaxLobbyExtra
  /\ LET message == [user |-> s, text |-> text, timestamp |-> lobbyPosted + 1]
         pushed == Append(lobbyMessages, message)
     IN /\ lobbyMessages' = shiftOverflow(pushed)
        /\ out' = <<Emit("lobbyChatMessage", {t \in Sockets : conn[t] = "open"}, message)>>
  /\ lobbyPosted' = lobbyPosted + 1
  /\ last' = [op |-> "lobbyChatMessage", sock |-> s, n |-> 0]
  /\ UNCHANGED <<rooms, currentRoom, conn, channel, crashed>>

\* socket.on("createRoom")
CreateRoom(s, mode) ==
  /\ ~crashed
  /\ conn[s] = "open"
  /\ last' = [op |-> "createRoom", sock |-> s, n |-> 0]
  /\ IF currentRoom[s] # Null
       THEN /\ out' = <<Emit("errorMsg", {s}, "You are already in a room")>>
            /\ UNCHANGED rooms
       ELSE IF mode \notin Modes
       THEN /\ out' = <<Emit("errorMsg", {s}, "Invalid game mode")>>
            /\ UNCHANGED rooms
       ELSE \E code \in generateCode(rooms) : \E answer \in chooseAnswer(mode) :
              /\ rooms' = roomsSet(rooms, code, newRoom(s, mode, answer))
              /\ out' = <<Emit("roomCreated", {s}, code)>>
  /\ UNCHANGED <<currentRoom, conn, channel, lobbyMessages, lobbyPosted, crashed>>

\* joinRoom with currentRoom assigned before the registry lookup
JoinRoomBindsFirst(s, code) ==
  /\ ~crashed
  /\ conn[s] = "open"
  /\ last' = [op |-> "joinRoom", sock |-> s, n |-> 0]
  /\ IF code = Null
       THEN /\ out' = <<Emit("errorMsg", {s}, "Room code is required")>>
            /\ UNCHANGED <<rooms, currentRoom, channel>>
       ELSE IF currentRoom[s] # Null
       THEN /\ out' = <<Emit("errorMsg", {s}, "You are already in a room")>>
            /\ UNCHANGED <<rooms, currentRoom, channel>>
       ELSE IF code \notin DOMAIN rooms
       THEN /\ out' = <<Emit("errorMsg", {s}, "Room not found")>>
            /\ currentRoom' = [currentRoom EXCEPT ![s] = code]
            /\ UNCHANGED <<rooms, channel>>
       ELSE LET room == rooms[code]
                joinedRoom == [room EXCEPT !.players = @ \cup {s},
                                           !.attempts = mapSet(@, s, <<>>),
                                           !.avatars = @ \cup {s}]
            IN /\ currentRoom' = [currentRoom EXCEPT ![s] = code]
               /\ rooms' = [rooms EXCEPT ![code] = joinedRoom]
               /\ channel' = [channel EXCEPT ![code] = @ \cup {s}]
               /\ out' = <<Emit("joined", {s}, code),
                           Emit("playerJoined", channel[code] \ {s}, s)>>
  /\ UNCHANGED <<conn, lobbyMessages, lobbyPosted, crashed>>

\* socket.on("joinRoom")
JoinRoom(s, code) ==
  /\ ~crashed
  /\ conn[s] = "open"
  /\ last' = [op |-> "joinRoom", sock |-> s, n |-> 0]
  /\ IF code = Null
       THEN /\ out' = <<Emit("errorMsg", {s}, "Room code is required")>>
            /\ UNCHANGED <<rooms, currentRoom, channel>>
       ELSE IF currentRoom[s] # Null
       THEN /\ out' = <<Emit("errorMsg", {s}, "You are already in a room")>>
            /\ UNCHANGED <<rooms, currentRoom, channel>>
       ELSE IF code \notin Live
       THEN /\ out' = <<Emit("errorMsg", {s}, "Room not found")>>
            /\ UNCHANGED <<rooms, currentRoom, channel>>
       ELSE LET room == rooms[code]
                joinedRoom == [room EXCEPT !.players = @ \cup {s},
                                           !.attempts = mapSet(@, s, <<>>),
                                           !.avatars = @ \cup {s}]
            IN /\ currentRoom' = [currentRoom EXCEPT ![s] = code]
               /\ rooms' = [rooms EXCEPT ![code] = joinedRoom]
               /\ channel' = [channel EXCEPT ![code] = @ \cup {s}]
               /\ out' = <<Emit("joined", {s}, code),
                           Emit("playerJoined", channel[code] \ {s}, s)>>
  /\ UNCHANGED <<conn, lobbyMessages, lobbyPosted, crashed>>

\* the guard shared by chatMessage, requestHint, makeGuess and disconnect:
\* !currentRoom || !rooms.has(currentRoom)
notInRoom(s) == currentRoom[s] = Null \/ currentRoom[s] \notin Live

\* chatMessage returning without an errorMsg when there is no room
ChatMessageSilentDrop(s, text) ==
  /\ ~crashed
  /\ conn[s] = "open"
  /\ last' = [op |-> "chatMessage", sock |-> s, n |-> 0]
  /\ IF currentRoom[s] = Null \/ currentRoom[s] \notin DOMAIN rooms
       THEN /\ out' = <<>>
            /\ UNCHANGED rooms
       ELSE LET code == currentRoom[s]
                message == [user |-> s, text |-> text]
            IN /\ Len(rooms[code].messages) < MaxChat
               /\ rooms' = [rooms EXCEPT ![code].messages = Append(@, message)]
               /\ out' = <<Emit("chatMessage", channel[code], message)>>
  /\ UNCHANGED <<currentRoom, conn, channel, lobbyMessages, lobbyPosted, crashed>>

\* socket.on("chatMessage")
ChatMessage(s, text) ==
  /\ ~crashed
  /\ conn[s] = "open"
  /\ last' = [op |-> "chatMessage", sock |-> s, n |-> 0]
  /\ IF notInRoom(s)
       THEN /\ out' = <<Emit("errorMsg", {s}, "You are not in a room")>>
            /\ UNCHANGED rooms
       ELSE LET code == currentRoom[s]
                message == [user |-> s, text |-> text]
            IN /\ Len(rooms[code].messages) < MaxChat
               /\ rooms' = [rooms EXCEPT ![code].messages = Append(@, message)]
               /\ out' = <<Emit("chatMessage", channel[code], message)>>
  /\ UNCHANGED <<currentRoom, conn, channel, lobbyMessages, lobbyPosted, crashed>>

\* requestHint without the hintedIndices filter
availableUnfiltered(room) == 0..(Len(room.answer) - 1)

\* [...Array(answer.length).keys()].filter((i) => !hintedIndices.has(i))
availableIndices(room) == {i \in 0..(Len(room.answer) - 1) : i \notin room.hintedIndices}

\* socket.on("requestHint")
RequestHint(s) ==
  /\ ~crashed
  /\ conn[s] = "open"
  /\ last' = [op |-> "requestHint", sock |-> s, n |-> 0]
  /\ IF notInRoom(s)
       THEN /\ out' = <<Emit("errorMsg", {s}, "You are not in a room")>>
            /\ UNCHANGED rooms
       ELSE LET code == currentRoom[s]
                room == rooms[code]
                available == availableIndices(room)
            IN IF available = {}
                 THEN /\ out' = <<Emit("errorMsg", {s}, "No more hints available")>>
                      /\ UNCHANGED rooms
                 ELSE \E idx \in available :
                        /\ rooms' = [rooms EXCEPT ![code].hintedIndices = @ \cup {idx}]
                        /\ out' = <<Emit("hint", channel[code],
                                         [index |-> idx, letter |-> room.answer[idx + 1]])>>
  /\ UNCHANGED <<currentRoom, conn, channel, lobbyMessages, lobbyPosted, crashed>>

\* a value sent as the makeGuess payload: a string, or something else
Str(w) == [isString |-> TRUE, chars |-> w]
NotString == [isString |-> FALSE, chars |-> <<>>]

\* the error text of the pool check
poolError(mode) ==
  IF mode = "both" THEN "Invalid location"
  ELSE IF mode = "countries" THEN "Invalid country"
  ELSE "Invalid capital city"

\* the pool check switched off
notInPoolNever(guess, mode) == FALSE

\* !pool.includes(guess)
notInPool(guess, mode) == guess \notin Pool(mode)

\* the length check switched off
wrongLengthNever(guess, answer) == FALSE

\* guess.length !== answer.length
wrongLength(guess, answer) == Len(guess) # Len(answer)

\* the end condition without the winning-guess disjunct
endsRoomAtBudgetOnly(guess, answer, attempts) == Len(attempts) >= MAX_ATTEMPTS

\* the end condition with the budget reached one guess early
endsRoomEarly(guess, answer, attempts) == guess = answer \/ Len(attempts) >= MAX_ATTEMPTS - 1

\* the end condition with > in place of >=
endsRoomPastBudget(guess, answer, attempts) == guess = answer \/ Len(attempts) > MAX_ATTEMPTS

\* the condition that ends the room after an appended guess
endsRoom(guess, answer, attempts) == guess = answer \/ Len(attempts) >= MAX_ATTEMPTS

\* socket.on("makeGuess")
MakeGuess(s, raw) ==
  /\ ~crashed
  /\ conn[s] = "open"
  /\ IF notInRoom(s)
       THEN /\ out' = <<Emit("errorMsg", {s}, "You are not in a room")>>
            /\ last' = [op |-> "makeGuess", sock |-> s, n |-> 0]
            /\ UNCHANGED <<rooms, crashed>>
       ELSE LET code == currentRoom[s]
                room == rooms[code]
                answer == room.answer
                guess == normalize(raw.chars)
            IN IF ~raw.isString \/ raw.chars = <<>>
                 THEN /\ out' = <<Emit("errorMsg", {s}, "Invalid guess")>>
                      /\ last' = [op |-> "makeGuess", sock |-> s, n |-> 0]
                      /\ UNCHANGED <<rooms, crashed>>
                 ELSE IF wrongLength(guess, answer)
                 THEN /\ out' = <<Emit("errorMsg", {s}, "Guess must be N letters")>>
                      /\ last' = [op |-> "makeGuess", sock |-> s, n |-> 0]
                      /\ UNCHANGED <<rooms, crashed>>
                 ELSE IF notInPool(guess, room.mode)
                 THEN /\ out' = <<Emit("errorMsg", {s}, poolError(room.mode))>>
                      /\ last' = [op |-> "makeGuess", sock |-> s, n |-> 0]
                      /\ UNCHANGED <<rooms, crashed>>
                 ELSE IF s \notin DOMAIN room.attempts
                 \* room.attempts.get(socket.id) is undefined: push throws a
                 \* TypeError that no handler catches
                 THEN /\ crashed' = TRUE
                      /\ out' = <<>>
                      /\ last' = [op |-> "makeGuess", sock |-> s, n |-> 0]
                      /\ UNCHANGED rooms
                 ELSE LET attempts == Append(room.attempts[s], guess)
                          pushed == [room EXCEPT !.attempts[s] = attempts]
                          fb == Emit("feedback", channel[code],
                                     [guess |-> guess, feedback |-> feedbackOf(guess, answer),
                                      player |-> s])
                      IN /\ crashed' = crashed
                         /\ last' = [op |-> "makeGuess", sock |-> s, n |-> Len(attempts)]
                         /\ IF endsRoom(guess, answer, attempts)
                              THEN /\ rooms' = roomsDelete(rooms, code)
                                   /\ out' = <<fb, Emit("gameOver", channel[code],
                                                [winner |-> IF guess = answer THEN s ELSE Null,
                                                 answer |-> answer])>>
                              ELSE /\ rooms' = [rooms EXCEPT ![code] = pushed]
                                   /\ out' = <<fb>>
  /\ UNCHANGED <<currentRoom, conn, channel, lobbyMessages, lobbyPosted>>

\* disconnect without the empty-room cleanup
neverEmpty(room) == FALSE

\* !room.players.size
isEmpty(room) == room.players = {}

\* socket.on("disconnect"): the transport has already closed the socket and
\* taken it out of every group when the handler runs
Disconnect(s) ==
  /\ ~crashed
  /\ conn[s] = "open"
  /\ conn' = [conn EXCEPT ![s] = "closed"]
  /\ channel' = [c \in Codes |-> channel[c] \ {s}]
  /\ last' = [op |-> "disconnect", sock |-> s, n |-> 0]
  /\ IF notInRoom(s)
       THEN /\ out' = <<>>
            /\ UNCHANGED rooms
       ELSE LET code == currentRoom[s]
                room == rooms[code]
                left == [room EXCEPT !.players = @ \ {s},
                                     !.attempts = mapDelete(@, s),
                                     !.avatars = @ \ {s}]
            IN /\ out' = <<Emit("playerLeft", channel'[code], s)>>
               /\ rooms' = IF isEmpty(left) THEN roomsDelete(rooms, code)
                           ELSE [rooms EXCEPT ![code] = left]
  /\ UNCHANGED <<currentRoom, lobbyMessages, lobbyPosted, crashed>>

\* ------------------------------------------------------ client inputs
ModeInputs == Modes \cup {"hard"}
CodeInputs == Codes \cup {Null}
GuessInputs ==
  {Str(<<"s", "p", "a", "i", "n">>), Str(<<" ", "I", "T", "A", "L", "Y", " ">>),
   Str(PARIS), Str(ROME), Str(<<>>), NotString}
TextInputs == {"hi"}
\* letters of the words the feedback function is applied to on its own
FeedbackLetters == {"A", "N", "S"}

\* the guesses of clients that play "countries" rooms: the two pool words,
\* one in lower case and one padded with blanks
CountryGuesses ==
  {Str(<<"s", "p", "a", "i", "n">>), Str(<<" ", "I", "T", "A", "L", "Y", " ">>)}

\* Registry and binding: clients that create "cities" rooms (or ask for an
\* unknown mode), join by code (or without one), send every kind of guess
\* payload and disconnect.  The only accepted guess in a "cities" room is
\* the answer, so rooms end by a win or by emptiness.
Next ==
  \E s \in Sockets :
    \/ Connect(s)
    \/ \E mode \in {"cities", "hard"} : CreateRoom(s, mode)
    \/ \E code \in CodeInputs : JoinRoom(s, code)
    \/ \E raw \in GuessInputs : MakeGuess(s, raw)
    \/ Disconnect(s)

Spec == Init /\ [][Next]_vars

\* Guessing: clients that create "countries" rooms, join by code, guess pool
\* words and disconnect.
NextGuess ==
  \E s \in Sockets :
    \/ Connect(s)
    \/ CreateRoom(s, "countries")
    \/ \E code \in Codes : JoinRoom(s, code)
    \/ \E raw \in CountryGuesses : MakeGuess(s, raw)
    \/ Disconnect(s)

SpecGuess == Init /\ [][NextGuess]_vars

\* Hints: clients that create "cities" rooms, join by code, request hints,
\* guess the answer and disconnect.
NextHint ==
  \E s \in Sockets :
    \/ Connect(s)
    \/ CreateRoom(s, "cities")
    \/ \E code \in Codes : JoinRoom(s, code)
    \/ RequestHint(s)
    \/ MakeGuess(s, Str(ROME))
    \/ Disconnect(s)

SpecHint == Init /\ [][NextHint]_vars

\* Room-scoped events: clients that create "cities" rooms, join by code, chat,
\* request hints, guess the answer and disconnect.
NextScoped ==
  \E s \in Sockets :
    \/ Connect(s)
    \/ CreateRoom(s, "cities")
    \/ \E code \in Codes : JoinRoom(s, code)
    \/ \E text \in TextInputs : ChatMessage(s, text)
    \/ RequestHint(s)
    \/ MakeGuess(s, Str(ROME))
    \/ Disconnect(s)

SpecScoped == Init /\ [][NextScoped]_vars

\* Guess payloads: clients that create "both" rooms, join by code, send every
\* kind of guess payload and disconnect.
NextInput ==
  \E s \in Sockets :
    \/ Connect(s)
    \/ CreateRoom(s, "both")
    \/ \E code \in Codes : JoinRoom(s, code)
    \/ \E raw \in GuessInputs : MakeGuess(s, raw)
    \/ Disconnect(s)

SpecInput == Init /\ [][NextInput]_vars

\* the connections that post to the lobby
LobbyPosters == {1}

\* Lobby: clients that create "cities" rooms and disconnect, one of which
\* posts to the lobby.
NextLobby ==
  \/ \E s \in Sockets :
       \/ Connect(s)
       \/ CreateRoom(s, "cities")
       \/ Disconnect(s)
  \/ \E s \in LobbyPosters : \E text \in TextInputs : LobbyChatMessage(s, text)

SpecLobby == Init /\ [][NextLobby]_vars

\* The feedback function on its own: every guess and target of FeedbackLen
\* letters over FeedbackLetters, the feedback emitted with its inputs.
FeedbackWords == [1..FeedbackLen -> FeedbackLetters]

\* the feedback computation of makeGuess applied to one guess and target
ComputeFeedback(guess, answer) ==
  /\ last' = [op |-> "feedback", sock |-> Null, n |-> 0]
  /\ out' = <<Emit("feedback", {},
                   [guess |-> guess, answer |-> answer,
                    feedback |-> feedbackOf(guess, answer)])>>
  /\ UNCHANGED <<rooms, currentRoom, conn, channel, lobbyMessages, lobbyPosted, crashed>>

NextFeedback == \E guess \in FeedbackWords : \E answer \in FeedbackWords : ComputeFeedback(guess, answer)

SpecFeedback == Init /\ [][NextFeedback]_vars

\* ---------------------------------------------------------------- claims

\* the last step was a createRoom that emitted roomCreated
createdRoom == last.op = "createRoom" /\ Len(out) = 1 /\ out[1].ev = "roomCreated"

\* C1: a createRoom never replaces a room that is in the registry: the step
\* keeps every live room as it was and adds exactly one new key, the code it
\* reports in roomCreated.
C1_CreateKeepsLiveRooms ==
  [][createdRoom' =>
       /\ out'[1].arg \notin DOMAIN rooms
       /\ DOMAIN rooms' = DOMAIN rooms \cup {out'[1].arg}
       /\ \A c \in DOMAIN rooms : rooms'[c] = rooms[c]]_vars

\* a createRoom has just succeeded while another room was live
C1_Witness == createdRoom /\ Cardinality(DOMAIN rooms) = 2

\* the last step was a makeGuess that passed every check and was appended
acceptedGuess == last.op = "makeGuess" /\ Len(out) >= 1 /\ out[1].ev = "feedback"

\* the last step broadcast gameOver
gameOver == last.op = "makeGuess" /\ Len(out) = 2 /\ out[2].ev = "gameOver"

\* C2: an accepted guess equal to the room's target removes the room from the
\* registry in that step and broadcasts gameOver to the room with the guesser
\* as winner, whatever the number of guesses the guesser made before.
C2_WinningGuessEndsRoom ==
  [][(acceptedGuess' /\ out'[1].arg.guess = rooms[currentRoom[last'.sock]].answer) =>
       LET s == last'.sock
           code == currentRoom[s]
       IN /\ code \notin DOMAIN rooms'
          /\ Len(out') = 2
          /\ out'[2].ev = "gameOver"
          /\ out'[2].arg.winner = s
          /\ out'[2].to = channel[code]]_vars

\* a participant has just won with the last guess of the budget
C2_Witness ==
  gameOver /\ last.n = MAX_ATTEMPTS /\ out[2].arg.winner = last.sock
    /\ currentRoom[last.sock] \notin Live

\* C3: an accepted guess that differs from the target leaves the room in the
\* registry, with the guess appended and no gameOver, while it is the
\* guesser's 1st .. (MAX_ATTEMPTS-1)-th guess; the MAX_ATTEMPTS-th one removes
\* the room and broadcasts gameOver with winner null.
C3_BudgetEndsRoom ==
  [][(acceptedGuess' /\ out'[1].arg.guess # rooms[currentRoom[last'.sock]].answer) =>
       LET s == last'.sock
           code == currentRoom[s]
           n == Len(rooms[code].attempts[s]) + 1
       IN IF n < MAX_ATTEMPTS
            THEN /\ code \in DOMAIN rooms'
                 /\ Len(out') = 1
                 /\ rooms'[code].attempts[s] = Append(rooms[code].attempts[s], out'[1].arg.guess)
            ELSE /\ n = MAX_ATTEMPTS
                 /\ code \notin DOMAIN rooms'
                 /\ Len(out') = 2
                 /\ out'[2].ev = "gameOver"
                 /\ out'[2].arg.winner = Null
                 /\ out'[2].to = channel[code]]_vars

\* a participant's MAX_ATTEMPTS-th wrong guess has just ended the room
C3_Witness ==
  gameOver /\ last.n = MAX_ATTEMPTS /\ out[2].arg.winner = Null
    /\ out[1].arg.guess # out[2].arg.answer /\ currentRoom[last.sock] \notin Live

\* C4 as stated: a room is ended (gameOver, registry deletion) only by a
\* winning guess or when every participant that has joined it has used up the
\* attempt budget; one participant reaching the budget while another has
\* attempts left does not end the room.
C4_EndsOnlyWhenAllExhausted ==
  [][gameOver' =>
       LET s == last'.sock
           room == rooms[currentRoom[s]]
       IN \/ out'[2].arg.winner # Null
          \/ \A p \in DOMAIN room.attempts \ {s} : Len(room.attempts[p]) >= MAX_ATTEMPTS]_vars

\* C4, amended: a room is ended by a guess only when the guess is the target
\* (winner = the guesser) or it is the guesser's own MAX_ATTEMPTS-th guess
\* (winner null), whatever the other participants have left.
C4_EndsOnlyAtWinOrOwnBudget ==
  [][gameOver' =>
       LET s == last'.sock
           room == rooms[currentRoom[s]]
           guess == out'[1].arg.guess
       IN /\ currentRoom[s] \notin DOMAIN rooms'
          /\ \/ guess = room.answer /\ out'[2].arg.winner = s
             \/ /\ guess # room.answer
                /\ Len(room.attempts[s]) + 1 = MAX_ATTEMPTS
                /\ out'[2].arg.winner = Null]_vars

\* a wrong guess has just ended a room for two connected participants
C4_Witness ==
  gameOver /\ out[2].arg.winner = Null /\ Cardinality(out[2].to) = 2
    /\ \A t \in out[2].to : currentRoom[t] = currentRoom[last.sock]

\* C5: a requestHint from a participant of a live room reveals an index of
\* the target that was not revealed before and adds it to the revealed set;
\* when every index is revealed it answers the requester alone with the
\* no-more-hints error, broadcasts no hint and leaves the registry unchanged.
C5_HintsNeverRepeat ==
  [][(last'.op = "requestHint" /\ ~notInRoom(last'.sock)) =>
       LET s == last'.sock
           code == currentRoom[s]
           room == rooms[code]
           all == 0..(Len(room.answer) - 1)
       IN IF room.hintedIndices = all
            THEN /\ out' = <<Emit("errorMsg", {s}, "No more hints available")>>
                 /\ rooms' = rooms
            ELSE /\ Len(out') = 1
                 /\ out'[1].ev = "hint"
                 /\ out'[1].arg.index \in all \ room.hintedIndices
                 /\ rooms' = [rooms EXCEPT ![code].hintedIndices =
                                             room.hintedIndices \cup {out'[1].arg.index}]]_vars

\* with two participants in the room, every index is revealed and a further
\* request has just been refused
C5_Witness ==
  /\ last.op = "requestHint"
  /\ out = <<Emit("errorMsg", {last.sock}, "No more hints available")>>
  /\ Cardinality(channel[currentRoom[last.sock]]) = 2
  /\ rooms[currentRoom[last.sock]].hintedIndices = 0..(Len(ROME) - 1)

\* the last step was a disconnect that removed the last participant of a room
emptiedRoom ==
  last.op = "disconnect" /\ Len(out) = 1 /\ currentRoom[last.sock] \notin Live

\* C6: a disconnect that takes the last participant out of a live room deletes
\* the room in the same step, and a joinRoom with that code right after it is
\* answered with "Room not found".
C6_LastLeaverDeletesRoom ==
  [][/\ (last'.op = "disconnect" /\ ~notInRoom(last'.sock)
           /\ rooms[currentRoom[last'.sock]].players \ {last'.sock} = {})
         => currentRoom[last'.sock] \notin DOMAIN rooms'
     /\ \A t \in Sockets :
          (emptiedRoom /\ currentRoom[t] = Null /\ JoinRoom(t, currentRoom[last.sock]))
            => (out' = <<Emit("errorMsg", {t}, "Room not found")>> /\ rooms' = rooms)]_vars

\* the last participant of a room has just disconnected
C6_Witness == emptiedRoom /\ conn[last.sock] = "closed"

\* C7: when no connection is open any more (so every connection that created
\* or joined a room has disconnected), the registry holds no room.
C7_RoomsSelfExpire == (\A s \in Sockets : conn[s] # "open") => Live = {}

\* C8: after a createRoom that emitted roomCreated, the creator's currentRoom
\* is the new code, so its room-scoped events are not refused as "not in a room".
C8_CreateBindsCurrentRoom ==
  createdRoom => (currentRoom[last.sock] = out[1].arg /\ ~notInRoom(last.sock))

\* C9: a createRoom from a connection whose previous event was a successful
\* createRoom is answered with an error to that connection and leaves the
\* registry unchanged.
C9_RepeatedCreateRejected ==
  [][(createdRoom /\ last'.op = "createRoom" /\ last'.sock = last.sock) =>
       /\ Len(out') = 1
       /\ out'[1].ev = "errorMsg"
       /\ out'[1].to = {last.sock}
       /\ rooms' = rooms]_vars

\* C10: a connection is in the participant roster of at most one live room.
C10_AtMostOneRoster ==
  \A s \in Sockets : Cardinality({c \in Live : s \in rooms[c].players}) <= 1

\* the handlers that act on the sender's current room
ScopedOps == {"chatMessage", "requestHint", "makeGuess"}

\* the step answered the sender alone with one errorMsg and changed nothing
rejectedStep(s) ==
  /\ Len(out') = 1
  /\ out'[1].ev = "errorMsg"
  /\ out'[1].to = {s}
  /\ UNCHANGED <<rooms, currentRoom, conn, channel, lobbyMessages, crashed>>

\* C11: a chatMessage, requestHint or makeGuess from a connection whose
\* currentRoom is not set is answered with one errorMsg to that connection,
\* broadcasts nothing and changes no room, registry, binding or lobby state.
C11_UnboundActionRejected ==
  [][(last'.op \in ScopedOps /\ currentRoom[last'.sock] = Null) =>
       rejectedStep(last'.sock)]_vars

\* an unbound connection has just been refused a chatMessage while a room
\* with a joined participant was live
C11_Witness ==
  /\ last.op = "chatMessage"
  /\ currentRoom[last.sock] = Null
  /\ out = <<Emit("errorMsg", {last.sock}, "You are not in a room")>>
  /\ \E c \in Live : channel[c] # {}

\* an open connection bound to a code whose room it joined has been deleted
\* (the code is free, or names a newer room that does not list it)
formerParticipant(s) ==
  /\ conn[s] = "open"
  /\ currentRoom[s] # Null
  /\ (currentRoom[s] \notin Live \/ s \notin rooms[currentRoom[s]].players)

\* C12: once its room is deleted, no chatMessage, requestHint, makeGuess or
\* disconnect of a former participant changes a live room or sends an event
\* to anyone but itself, also when the code has been generated again.
C12_DeadRoomStaysDead ==
  [][(last'.op \in ScopedOps \cup {"disconnect"} /\ formerParticipant(last'.sock)) =>
       /\ rooms' = rooms
       /\ crashed' = crashed
       /\ \A i \in 1..Len(out') : out'[i].to \subseteq {last'.sock}]_vars

\* C13: after its room has finished, every chatMessage, requestHint and
\* makeGuess of a former participant is answered with one errorMsg to that
\* connection alone and changes nothing.
C13_NoReopening ==
  [][(last'.op \in ScopedOps /\ formerParticipant(last'.sock)) =>
       rejectedStep(last'.sock)]_vars

\* the payload is not a string, is empty, or has not the target's length
invalidGuess(raw, answer) ==
  ~raw.isString \/ raw.chars = <<>> \/ Len(normalize(raw.chars)) # Len(answer)

\* C14: a makeGuess of a participant whose payload is not a string, is empty
\* or differs from the target in normalized length is answered with one
\* errorMsg to the sender alone; nothing is appended or broadcast and the
\* room and registry stay as they were.
C14_InvalidGuessRejected ==
  [][\A s \in Sockets : \A raw \in GuessInputs :
       (/\ MakeGuess(s, raw)
        /\ ~notInRoom(s)
        /\ invalidGuess(raw, rooms[currentRoom[s]].answer))
         => rejectedStep(s)]_vars

\* a joined participant has just been refused a guess of the wrong length
C14_Witness ==
  /\ last.op = "makeGuess"
  /\ out = <<Emit("errorMsg", {last.sock}, "Guess must be N letters")>>
  /\ ~notInRoom(last.sock)
  /\ last.sock \in DOMAIN rooms[currentRoom[last.sock]].attempts

\* C15: a joinRoom naming a code that is not in the registry is answered with
\* one errorMsg to the joiner; its currentRoom, every room and roster and the
\* group membership stay as they were (no joined, no playerJoined).
C15_UnknownCodeRejected ==
  [][\A s \in Sockets : \A code \in Codes :
       (JoinRoom(s, code) /\ code \notin Live) => rejectedStep(s)]_vars

\* an unbound connection has just been told "Room not found" while another
\* room was live
C15_Witness ==
  /\ last.op = "joinRoom"
  /\ Len(out) = 1
  /\ out[1].ev = "errorMsg"
  /\ out[1].arg = "Room not found"
  /\ currentRoom[last.sock] = Null
  /\ Live # {}

\* the events that are addressed to a room
RoomEvents == {"chatMessage", "hint", "feedback", "gameOver", "playerLeft"}

\* the connections of a roster that exist, the sender of a disconnect excepted
rosterOf(room, op, s) ==
  {p \in room.players : conn[p] = "open"} \ (IF op = "disconnect" THEN {s} ELSE {})

\* C16: every room event (chat, hint, feedback, gameOver, playerLeft) goes to
\* exactly the connections that are in the room's roster when it is sent.
C16_BroadcastReachesRoster ==
  [][(last'.op \in ScopedOps \cup {"disconnect"} /\ ~notInRoom(last'.sock)) =>
       \A i \in 1..Len(out') :
         out'[i].ev \in RoomEvents =>
           out'[i].to = rosterOf(rooms[currentRoom[last'.sock]], last'.op, last'.sock)]_vars

\* the last step was a joinRoom that emitted joined
joinedRoom == last.op = "joinRoom" /\ Len(out) = 2 /\ out[1].ev = "joined"

\* C18: a successful joinRoom sends joined to the joiner alone and
\* playerJoined to every other connection of the roster and not to the
\* joiner; the joiner is in the roster with an empty history, and the other
\* histories and the revealed set are unchanged.
C18_JoinNotifiesOthers ==
  [][joinedRoom' =>
       LET s == last'.sock
           code == out'[1].arg
           room == rooms[code]
       IN /\ out'[1].to = {s}
          /\ out'[2].ev = "playerJoined"
          /\ out'[2].to = {p \in room.players \ {s} : conn[p] = "open"}
          /\ s \in rooms'[code].players
          /\ rooms'[code].attempts[s] = <<>>
          /\ \A p \in DOMAIN room.attempts \ {s} :
               rooms'[code].attempts[p] = room.attempts[p]
          /\ rooms'[code].hintedIndices = room.hintedIndices]_vars

\* C19: the disconnect of a connection bound to a live room broadcasts
\* playerLeft with its id to the room; if the room remains, the id is in
\* neither its roster, its attempt map nor its avatar map, and the other
\* histories, the revealed set and the target are unchanged.
C19_DisconnectRemovesParticipant ==
  [][(last'.op = "disconnect" /\ ~notInRoom(last'.sock)) =>
       LET s == last'.sock
           code == currentRoom[s]
           room == rooms[code]
       IN /\ out' = <<Emit("playerLeft", channel[code] \ {s}, s)>>
          /\ code \in DOMAIN rooms' =>
               /\ s \notin rooms'[code].players
               /\ s \notin DOMAIN rooms'[code].attempts
               /\ s \notin rooms'[code].avatars
               /\ rooms'[code].players = room.players \ {s}
               /\ \A p \in DOMAIN room.attempts \ {s} :
                    /\ p \in DOMAIN rooms'[code].attempts
                    /\ rooms'[code].attempts[p] = room.attempts[p]
               /\ rooms'[code].hintedIndices = room.hintedIndices
               /\ rooms'[code].answer = room.answer]_vars

\* a participant has just left a room in which another one has guessed
C19_Witness ==
  /\ last.op = "disconnect"
  /\ Len(out) = 1
  /\ out[1].to # {}
  /\ currentRoom[last.sock] \in Live
  /\ \E p \in DOMAIN rooms[currentRoom[last.sock]].attempts :
       Len(rooms[currentRoom[last.sock]].attempts[p]) > 0

\* the largest capacity that the model can tell from no capacity at all
ChatCapacity == MaxChat - 1

\* C20: a room's chat log never holds more than a fixed capacity of messages.
C20_ChatLogBounded == \A c \in Live : Len(rooms[c].messages) <= ChatCapacity

\* the last step was a lobbyChatMessage
lobbyPost == last.op = "lobbyChatMessage"

\* C21: the lobby log never holds more than MAX_LOBBY_MESSAGES (50)
\* messages; a post appends the new message as the last one, and when the log
\* already holds 50 it drops exactly the oldest, leaving 50 in posting order;
\* a lobby post changes no room, binding or group membership.
C21_LobbyLogBounded ==
  [][/\ Len(lobbyMessages') <= MAX_LOBBY_MESSAGES
     /\ lobbyPost' =>
          /\ Len(out') = 1
          /\ lobbyMessages' =
               Append(IF Len(lobbyMessages) = MAX_LOBBY_MESSAGES
                        THEN Tail(lobbyMessages) ELSE lobbyMessages,
                      out'[1].arg)
          /\ \A i \in 1..(Len(lobbyMessages') - 1) :
               lobbyMessages'[i].timestamp < lobbyMessages'[i + 1].timestamp
          /\ UNCHANGED <<rooms, currentRoom, channel>>]_vars

\* the 51st post has just evicted the first one while a room was live
C21_Witness ==
  /\ lobbyPost
  /\ lobbyPosted = MAX_LOBBY_MESSAGES + 1
  /\ Len(lobbyMessages) = MAX_LOBBY_MESSAGES
  /\ lobbyMessages[1].timestamp = 2
  /\ lobbyMessages[MAX_LOBBY_MESSAGES].timestamp = MAX_LOBBY_MESSAGES + 1
  /\ Live # {}

\* the last step computed a feedback
computedFeedback == last.op = "feedback" /\ Len(out) = 1 /\ out[1].ev = "feedback"

\* C22: for a guess g and target t of equal length and every position i,
\* feedback[i] is "correct" iff g[i] = t[i], "present" iff g[i] # t[i] and
\* g[i] occurs somewhere in t, and "absent" otherwise.
C22_FeedbackPerPosition ==
  computedFeedback =>
    LET g == out[1].arg.guess
        t == out[1].arg.answer
        fb == out[1].arg.feedback
    IN /\ Len(fb) = Len(g)
       /\ \A i \in 1..Len(g) :
            /\ fb[i] = "correct" <=> g[i] = t[i]
            /\ fb[i] = "present" <=> (g[i] # t[i] /\ \E j \in 1..Len(t) : t[j] = g[i])
            /\ fb[i] = "absent" <=> (g[i] # t[i] /\ \A j \in 1..Len(t) : t[j] # g[i])

\* a letter that occurs once in the target and twice in the guess, at two
\* mismatching positions, has been marked "present" at both
C22_Witness ==
  /\ computedFeedback
  /\ LET g == out[1].arg.guess
         t == out[1].arg.answer
         fb == out[1].arg.feedback
     IN \E i, k \in 1..Len(g) :
          /\ i < k /\ g[i] = g[k]
          /\ g[i] # t[i] /\ g[k] # t[k]
          /\ Cardinality({j \in 1..Len(t) : t[j] = g[i]}) = 1
          /\ fb[i] = "present" /\ fb[k] = "present"

\* in a room whose target is SPAIN: a participant's first guess ITALY gets the
\* feedback fbItaly and leaves the room in the registry; its next guess SPAIN
\* gets "correct" everywhere and ends the room with the guesser as winner
scenarioStep(fbItaly) ==
  (acceptedGuess' /\ rooms[currentRoom[last'.sock]].answer = SPAIN) =>
    LET s == last'.sock
        code == currentRoom[s]
        before == rooms[code].attempts[s]
        guess == out'[1].arg.guess
    IN /\ (before = <<>> /\ guess = ITALY) =>
            /\ out'[1].arg.feedback = fbItaly
            /\ Len(out') = 1
            /\ code \in DOMAIN rooms'
            /\ rooms'[code].attempts[s] = <<ITALY>>
       /\ (before = <<ITALY>> /\ guess = SPAIN) =>
            /\ out'[1].arg.feedback = [i \in 1..5 |-> "correct"]
            /\ Len(out') = 2
            /\ out'[2].ev = "gameOver"
            /\ out'[2].arg.winner = s
            /\ code \notin DOMAIN rooms'

\* C23 as stated: against SPAIN the guess ITALY is marked I absent, T absent,
\* A present, L absent, Y absent and does not end the room; the following
\* guess SPAIN is all correct and ends the room with the guesser as winner.
C23_ScenarioAsStated ==
  [][scenarioStep(<<"absent", "absent", "present", "absent", "absent">>)]_vars

\* C23 amended: against SPAIN the guess ITALY is marked I present (SPAIN has
\* an I), T absent, A correct (third letter of both), L absent, Y absent and
\* does not end the room; the following guess SPAIN is all correct and ends
\* the room with the guesser as winner.
C23_ScenarioAsComputed ==
  [][scenarioStep(<<"present", "absent", "correct", "absent", "absent">>)]_vars

\* a participant has just won with SPAIN as its second guess, after ITALY
C23_Witness ==
  /\ gameOver
  /\ last.n = 2
  /\ out[1].arg.guess = SPAIN
  /\ out[2].arg.answer = SPAIN
  /\ out[2].arg.winner = last.sock

\* C24: every guess history of every room in the registry has fewer than
\* MAX_ATTEMPTS entries; a history has at most MAX_ATTEMPTS entries when a
\* guess is appended; and while its owner stays in the room a history either
\* stays as it is or gets one entry appended.
C24_HistoryBounded ==
  [][/\ \A c \in DOMAIN rooms' : \A p \in DOMAIN rooms'[c].attempts :
          Len(rooms'[c].attempts[p]) < MAX_ATTEMPTS
     /\ acceptedGuess' => last'.n <= MAX_ATTEMPTS
     /\ \A c \in DOMAIN rooms \cap DOMAIN rooms' :
          \A p \in DOMAIN rooms[c].attempts \cap DOMAIN rooms'[c].attempts :
            LET old == rooms[c].attempts[p]
                new == rooms'[c].attempts[p]
            IN \/ new = old
               \/ /\ Len(new) = Len(old) + 1
                  /\ SubSeq(new, 1, Len(old)) = old
                  /\ acceptedGuess' /\ last'.sock = p]_vars

\* a participant of a live room has one guess left while another participant
\* of the room has guessed too
C24_Witness ==
  \E c \in Live : \E p, q \in DOMAIN rooms[c].attempts :
    /\ p # q
    /\ Len(rooms[c].attempts[p]) = MAX_ATTEMPTS - 1
    /\ Len(rooms[c].attempts[q]) > 0

\* C25: a createRoom or joinRoom is answered "You are already in a room" only
\* when the room the connection is bound to is in the registry.
C25_RefusedOnlyWhileRoomLive ==
  [][(/\ last'.op \in {"createRoom", "joinRoom"}
      /\ out' = <<Emit("errorMsg", {last'.sock}, "You are already in a room")>>)
       => currentRoom[last'.sock] \in Live]_vars

====
